---- MODULE Spec2Model ----
(***************************************************************************)
(* Model of the order dashboard component App (src/unnamed/part_000; the   *)
(* file src/src/App.jsx is an earlier revision with the same fetch,        *)
(* classification and enrichment logic and another fallback area label).   *)
(*                                                                         *)
(* The component state is the React state of App; the suspended parts of   *)
(* its asynchronous functions (order fetches, delay timers, geocoding      *)
(* requests) are kept as sets of records, one record per suspended call,   *)
(* holding the values its closure captured.                                *)
(*                                                                         *)
(* Coordinate strings are sequences of one-character strings, because the  *)
(* code splits and trims them; labels, statuses and ids are atoms.         *)
(***************************************************************************)
EXTENDS Integers, Sequences, FiniteSets

VARIABLES
    activeTab,    \* useState('created')
    dateFilter,   \* useState('daily')
    orders,       \* useState([]): sequence of order records
    loading,      \* useState(true)
    error,        \* useState(null): "null" or the message
    areaNames,    \* useState({}): order id -> label, "undefined" when no key
    fetches,      \* fetchOrders calls suspended at their await
    timers,       \* setTimeout callbacks of the enrichment effect not yet run
    geoReq,       \* resolveAreaName calls suspended at one of their awaits
    geoErrors,    \* order ids for which console.error('Geocoding error:') ran
    now,          \* the clock new Date() reads, in hours
    issued,       \* number of fetchOrders calls made so far
    lastOutcome,  \* how the latest fetchOrders call ended: "pending", "ok", "failed"
    ordersFrom    \* the fetchOrders call whose data is in orders (0: none)

vars == <<activeTab, dateFilter, orders, loading, error, areaNames,
          fetches, timers, geoReq, geoErrors, now, issued, lastOutcome, ordersFrom>>

----------------------------------------------------------------------------
(* Bounds of the model *)

\* fetchOrders calls in one behaviour, the one of the mount included
MaxFetches == 3

\* length of the order collections the classifier is checked on
MaxLen == 3

\* hours the clock is followed past the end of the first day
MaxTicks == 3

----------------------------------------------------------------------------
(* Constants of the program *)

\* TABS with 'processing' listed under two tabs
TABS_SharedStatus == <<
    [id |-> "created",   status |-> <<"pending", "on-hold", "processing">>],
    [id |-> "processed", status |-> <<"processing">>],
    [id |-> "dispersed", status |-> <<"dispatched">>],
    [id |-> "completed", status |-> <<"completed">>],
    [id |-> "canceled",  status |-> <<"cancelled">>] >>

TABS == <<
    [id |-> "created",   status |-> <<"pending", "on-hold">>],
    [id |-> "processed", status |-> <<"processing">>],
    [id |-> "dispersed", status |-> <<"dispatched">>],
    [id |-> "completed", status |-> <<"completed">>],
    [id |-> "canceled",  status |-> <<"cancelled">>] >>

DATE_FILTERS == <<
    [id |-> "daily",   days |-> 0],
    [id |-> "3day",    days |-> 3],
    [id |-> "weekly",  days |-> 7],
    [id |-> "monthly", days |-> 30] >>

FallbackLabel == "Get Directions"

TabIds == {TABS[i].id : i \in 1..Len(TABS)}
FilterIds == {DATE_FILTERS[i].id : i \in 1..Len(DATE_FILTERS)}

\* Array.prototype.find on TABS / DATE_FILTERS by id
FindTab(id) == TABS[CHOOSE i \in 1..Len(TABS) : TABS[i].id = id]
FindFilter(id) == DATE_FILTERS[CHOOSE i \in 1..Len(DATE_FILTERS) : DATE_FILTERS[i].id = id]

\* Array.prototype.includes
Includes(seq, x) == \E i \in 1..Len(seq) : seq[i] = x

----------------------------------------------------------------------------
(* JavaScript values *)

\* the value undefined where a string is expected; no string equals it,
\* strings being sequences of one-character strings
Undefined == <<"undefined">>

\* the label of a key that areaNames does not have
NoLabel == "undefined"

\* truthiness of a string-or-undefined value: undefined and '' are falsy
Truthy(s) == s # Undefined /\ s # <<>>

RECURSIVE SplitFrom(_, _, _)
\* String.prototype.split(','): cur is the piece being read, i the position
SplitFrom(s, i, cur) ==
    IF i > Len(s) THEN <<cur>>
    ELSE IF s[i] = "," THEN <<cur>> \o SplitFrom(s, i + 1, <<>>)
    ELSE SplitFrom(s, i + 1, Append(cur, s[i]))

Split(s) == SplitFrom(s, 1, <<>>)

RECURSIVE TrimLeft(_)
TrimLeft(s) == IF s # <<>> /\ Head(s) = " " THEN TrimLeft(Tail(s)) ELSE s

RECURSIVE TrimRight(_)
TrimRight(s) ==
    IF s # <<>> /\ s[Len(s)] = " " THEN TrimRight(SubSeq(s, 1, Len(s) - 1)) ELSE s

\* String.prototype.trim
Trim(s) == TrimRight(TrimLeft(s))

\* const [lat, lon] = coords.split(',').map(c => c.trim())
LatLon(coords) ==
    LET parts == Split(coords)
    IN [lat |-> Trim(parts[1]),
        lon |-> IF Len(parts) >= 2 THEN Trim(parts[2]) ELSE Undefined]

----------------------------------------------------------------------------
(* The order source and the geocoding source *)

\* the ids of the orders the order source holds
OrderIds == 1..2

GoodCoords == <<"2", "4", ".", "8", ",", " ", "6", "7", ".", "0">>   \* "24.8, 67.0"
BadCoords == <<"n", "o", "-", "c">>                                  \* no pair
NA == <<"N", "/", "A">>

StatusKinds == <<"pending", "refunded", "on-hold", "processing",
                 "dispatched", "completed", "cancelled">>

\* meta_data of an order whose map_coordinates value is c (Undefined: the
\* order has no such entry)
MetaOf(c) ==
    IF c = Undefined THEN <<[key |-> "rider_note", value |-> <<"x">>]>>
    ELSE <<[key |-> "rider_note", value |-> <<"x">>],
           [key |-> "map_coordinates", value |-> c]>>

\* an order as the order source returns it
Order(id, status, c) == [id |-> id, status |-> status, meta_data |-> MetaOf(c)]

\* the order with this id, with the coordinates the shop has stored for it
\* at the time of the response
OrderOf(id, c) == Order(id, StatusKinds[((id - 1) % Len(StatusKinds)) + 1], c)

\* successful responses of the order source: orders with coordinates
LoadCollections ==
    {<<>>, <<OrderOf(1, GoodCoords)>>, <<OrderOf(2, GoodCoords)>>}

\* successful responses of the order source: every kind of coordinates
EnrichCollections ==
    {<<>>,
     <<OrderOf(1, GoodCoords)>>,
     <<OrderOf(1, NA), OrderOf(2, BadCoords)>>,
     <<OrderOf(2, Undefined)>>}

\* successful responses of the order source: order 2 never has coordinates
SkipCollections ==
    {<<>>,
     <<OrderOf(1, GoodCoords)>>,
     <<OrderOf(1, GoodCoords), OrderOf(2, NA)>>,
     <<OrderOf(2, Undefined)>>}

\* successful responses of the order source: one order with coordinates
\* that are a pair
LiveCollections == {<<>>, <<OrderOf(1, GoodCoords)>>}

RECURSIVE SeqsUpTo(_, _)
\* the sequences over S of length at most n
SeqsUpTo(S, n) ==
    IF n = 0 THEN {<<>>}
    ELSE LET shorter == SeqsUpTo(S, n - 1)
         IN shorter \cup {Append(q, x) : q \in {p \in shorter : Len(p) = n - 1}, x \in S}

\* successful responses of the order source: orders without coordinates,
\* every sequence of statuses up to MaxLen, the order at position i having id i
StatusCollections ==
    {[i \in 1..Len(q) |-> Order(i, q[i], Undefined)] :
        q \in SeqsUpTo({StatusKinds[i] : i \in 1..Len(StatusKinds)}, MaxLen)}

FetchErrors == {"Failed to fetch orders", "Failed to fetch"}

EmptyAddress == [suburb |-> "", neighbourhood |-> "", city_district |-> "", city |-> ""]

Addresses == [suburb : {"", "Clifton"}, neighbourhood : {"", "Saddar"},
              city_district : {"", "South"}, city : {"", "Karachi"}]

\* what a geocoding call ends with: a rejected fetch, an unparseable body,
\* JSON without an address object, or JSON with one
GeoBody(kind, address) == [kind |-> kind, address |-> address]

AllGeoBodies ==
    {GeoBody(k, EmptyAddress) : k \in {"neterror", "badjson", "noaddress"}}
    \cup {GeoBody("address", a) : a \in Addresses}

SomeGeoBodies ==
    {GeoBody("neterror", EmptyAddress),
     GeoBody("address", EmptyAddress),
     GeoBody("address", [EmptyAddress EXCEPT !.suburb = "Clifton"])}

----------------------------------------------------------------------------
(* Pure parts of App *)

\* instants are whole hours, counted from the midnight that starts day 0
HoursPerDay == 24

\* date-fns subDays
subDays(t, n) == t - n * HoursPerDay

\* date-fns startOfDay without the truncation to midnight
startOfDay_Identity(t) == t

\* date-fns startOfDay
startOfDay(t) == t - (t % HoursPerDay)

\* date-fns format with "yyyy-MM-dd'T'HH:mm:ss": the calendar day and the
\* hour of the day
format(t) == [date |-> t \div HoursPerDay, hour |-> t % HoursPerDay]

\* const afterDate = format(startOfDay(subDays(new Date(), filter.days)), ...)
afterDate(w, t) == format(startOfDay(subDays(t, FindFilter(w).days)))

\* order.meta_data?.find(m => m.key === 'map_coordinates')?.value
CoordsOf(order) ==
    LET m == order.meta_data
        hit == {i \in 1..Len(m) : m[i].key = "map_coordinates"}
    IN IF hit = {} THEN Undefined
       ELSE m[CHOOSE i \in hit : \A j \in hit : i <= j].value

\* orders.filter(order => TABS.find(t => t.id === activeTab).status.includes(order.status))
filteredOrders(os, tab) ==
    LET currentTab == FindTab(tab)
        Keep(order) == Includes(currentTab.status, order.status)
    IN SelectSeq(os, Keep)

RECURSIVE CountFrom(_, _, _)
CountFrom(os, tab, i) ==
    IF i > Len(os) THEN 0
    ELSE (IF Includes(tab.status, os[i].status) THEN 1 ELSE 0) + CountFrom(os, tab, i + 1)

\* count without the status filter
count_Unfiltered(os, tab) == Len(os)

\* const count = orders.filter(o => tab.status.includes(o.status)).length
count(os, tab) == CountFrom(os, tab, 1)

\* the preference list with city and suburb exchanged
AreaLabel_CityFirst(a) ==
    IF a.city # "" THEN a.city
    ELSE IF a.neighbourhood # "" THEN a.neighbourhood
    ELSE IF a.city_district # "" THEN a.city_district
    ELSE IF a.suburb # "" THEN a.suburb
    ELSE FallbackLabel

\* the preference list without the fallback label
AreaLabel_NoFallback(a) ==
    IF a.suburb # "" THEN a.suburb
    ELSE IF a.neighbourhood # "" THEN a.neighbourhood
    ELSE IF a.city_district # "" THEN a.city_district
    ELSE IF a.city # "" THEN a.city
    ELSE NoLabel

\* a.suburb || a.neighbourhood || a.city_district || a.city || fallback
AreaLabel(a) ==
    IF a.suburb # "" THEN a.suburb
    ELSE IF a.neighbourhood # "" THEN a.neighbourhood
    ELSE IF a.city_district # "" THEN a.city_district
    ELSE IF a.city # "" THEN a.city
    ELSE FallbackLabel

----------------------------------------------------------------------------
(* Initial state: App mounted, both effects run once *)

Init ==
    /\ activeTab = "created"
    /\ dateFilter = "daily"
    /\ orders = <<>>
    /\ loading = TRUE
    /\ error = "null"
    /\ areaNames = [id \in OrderIds |-> NoLabel]
    /\ fetches = {[seq |-> 1, window |-> "daily", after |-> afterDate("daily", 0),
                   at |-> 0, by |-> "mount"]}
    /\ timers = {}
    /\ geoReq = {}
    /\ geoErrors = {}
    /\ now = 0
    /\ issued = 1
    /\ lastOutcome = "pending"
    /\ ordersFrom = 0

----------------------------------------------------------------------------
(* Operations *)

\* fetchOrders up to its first await, called for the window w
StartFetch(w, by) ==
    /\ issued < MaxFetches
    /\ loading' = TRUE
    /\ error' = "null"
    /\ issued' = issued + 1
    /\ fetches' = fetches \cup
          {[seq |-> issued + 1, window |-> w, after |-> afterDate(w, now),
            at |-> now, by |-> by]}
    /\ lastOutcome' = "pending"

\* a date filter option is clicked; a changed dateFilter gives a new
\* fetchOrders, which the effect on [fetchOrders] calls
SelectWindow(w) ==
    /\ dateFilter' = w
    /\ IF w = dateFilter
       THEN UNCHANGED <<loading, error, fetches, issued, lastOutcome>>
       ELSE StartFetch(w, "window")
    /\ UNCHANGED <<activeTab, orders, areaNames, timers, geoReq, ordersFrom, geoErrors, now>>

\* the Retry button of the error state
Retry ==
    /\ ~loading
    /\ error # "null"
    /\ StartFetch(dateFilter, "retry")
    /\ UNCHANGED <<activeTab, dateFilter, orders, areaNames,
                   timers, geoReq, ordersFrom, geoErrors, now>>

\* a tab button whose click also calls fetchOrders
SelectBucket_Refetch(t) ==
    /\ activeTab' = t
    /\ StartFetch(dateFilter, "window")
    /\ UNCHANGED <<dateFilter, orders, areaNames, timers, geoReq, ordersFrom, geoErrors, now>>

\* a tab button is clicked
SelectBucket(t) ==
    /\ activeTab' = t
    /\ UNCHANGED <<dateFilter, orders, loading, error, areaNames,
                   fetches, timers, geoReq, issued, lastOutcome, ordersFrom, geoErrors, now>>

\* the timers the enrichment effect sets for a collection; the callback
\* keeps the resolveAreaName of the render that committed the collection,
\* and with it that render's areaNames
TimersFor(data, seq) ==
    {[id |-> data[i].id, coords |-> CoordsOf(data[i]),
      seen |-> areaNames[data[i].id], seq |-> seq] :
        i \in {j \in 1..Len(data) : Truthy(CoordsOf(data[j]))}}

\* a fetchOrders success that also resets areaNames
FetchSucceed_DiscardsCache(f, data) ==
    /\ f \in fetches
    /\ fetches' = fetches \ {f}
    /\ orders' = data
    /\ loading' = FALSE
    /\ areaNames' = [id \in OrderIds |-> NoLabel]
    /\ timers' = timers \cup TimersFor(data, f.seq)
    /\ lastOutcome' = IF f.seq = issued THEN "ok" ELSE lastOutcome
    /\ ordersFrom' = f.seq
    /\ UNCHANGED <<activeTab, dateFilter, error, geoReq, issued, geoErrors, now>>

\* a fetchOrders call resumes with an ok response whose JSON is data
FetchSucceed(f, data) ==
    /\ f \in fetches
    /\ fetches' = fetches \ {f}
    /\ orders' = data
    /\ loading' = FALSE
    /\ timers' = timers \cup TimersFor(data, f.seq)
    /\ lastOutcome' = IF f.seq = issued THEN "ok" ELSE lastOutcome
    /\ ordersFrom' = f.seq
    /\ UNCHANGED <<activeTab, dateFilter, error, areaNames, geoReq, issued, geoErrors, now>>

\* a fetchOrders failure that calls fetchOrders again
FetchFail_AutoRetry(f, msg) ==
    /\ f \in fetches
    /\ error' = msg
    /\ loading' = FALSE
    /\ IF issued < MaxFetches
       THEN /\ fetches' = (fetches \ {f}) \cup
                  {[seq |-> issued + 1, window |-> f.window, after |-> f.after,
                    at |-> now, by |-> "retry"]}
            /\ issued' = issued + 1
            /\ lastOutcome' = "pending"
       ELSE /\ fetches' = fetches \ {f}
            /\ issued' = issued
            /\ lastOutcome' = IF f.seq = issued THEN "failed" ELSE lastOutcome
    /\ UNCHANGED <<activeTab, dateFilter, orders, areaNames,
                   timers, geoReq, ordersFrom, geoErrors, now>>

\* a fetchOrders without the finally: a failure records the message only
FetchFail_KeepsLoading(f, msg) ==
    /\ f \in fetches
    /\ fetches' = fetches \ {f}
    /\ error' = msg
    /\ lastOutcome' = IF f.seq = issued THEN "failed" ELSE lastOutcome
    /\ UNCHANGED <<activeTab, dateFilter, orders, loading, areaNames,
                   timers, geoReq, issued, ordersFrom, geoErrors, now>>

\* a fetchOrders whose catch also calls setOrders([])
FetchFail_ClearsOrders(f, msg) ==
    /\ f \in fetches
    /\ fetches' = fetches \ {f}
    /\ error' = msg
    /\ loading' = FALSE
    /\ orders' = <<>>
    /\ lastOutcome' = IF f.seq = issued THEN "failed" ELSE lastOutcome
    /\ UNCHANGED <<activeTab, dateFilter, areaNames,
                   timers, geoReq, issued, ordersFrom, geoErrors, now>>

\* a fetchOrders call resumes in its catch: transport failure, non-ok
\* response or unparseable body
FetchFail(f, msg) ==
    /\ f \in fetches
    /\ fetches' = fetches \ {f}
    /\ error' = msg
    /\ loading' = FALSE
    /\ lastOutcome' = IF f.seq = issued THEN "failed" ELSE lastOutcome
    /\ UNCHANGED <<activeTab, dateFilter, orders, areaNames,
                   timers, geoReq, issued, ordersFrom, geoErrors, now>>

\* resolveAreaName without the test for 'N/A'
TimerFire_NoNACheck(t) ==
    /\ t \in timers
    /\ timers' = timers \ {t}
    /\ IF t.seen # NoLabel \/ ~Truthy(t.coords)
       THEN UNCHANGED geoReq
       ELSE geoReq' = geoReq \cup
              {[id |-> t.id, lat |-> LatLon(t.coords).lat, lon |-> LatLon(t.coords).lon,
                seq |-> t.seq]}
    /\ UNCHANGED <<activeTab, dateFilter, orders, loading, error, areaNames,
                   fetches, issued, lastOutcome, ordersFrom, geoErrors, now>>

\* a delay timer fires: resolveAreaName(order.id, coords) up to its
\* first await
TimerFire(t) ==
    /\ t \in timers
    /\ timers' = timers \ {t}
    /\ IF t.seen # NoLabel \/ ~Truthy(t.coords) \/ t.coords = NA
       THEN UNCHANGED geoReq
       ELSE geoReq' = geoReq \cup
              {[id |-> t.id, lat |-> LatLon(t.coords).lat, lon |-> LatLon(t.coords).lon,
                seq |-> t.seq]}
    /\ UNCHANGED <<activeTab, dateFilter, orders, loading, error, areaNames,
                   fetches, issued, lastOutcome, ordersFrom, geoErrors, now>>

\* a resolveAreaName whose catch also calls setError
GeoRespond_SurfacesError(r, body) ==
    /\ r \in geoReq
    /\ geoReq' = geoReq \ {r}
    /\ IF body.kind = "address"
       THEN /\ areaNames' = [areaNames EXCEPT ![r.id] = AreaLabel(body.address)]
            /\ UNCHANGED <<geoErrors, error>>
       ELSE /\ geoErrors' = geoErrors \cup {r.id}
            /\ error' = "Geocoding error"
            /\ UNCHANGED areaNames
    /\ UNCHANGED <<activeTab, dateFilter, orders, loading,
                   fetches, timers, issued, lastOutcome, ordersFrom, now>>

\* a resolveAreaName call resumes after its awaits: with an address
\* object in the JSON the label is stored; a rejected fetch, an
\* unparseable body or a JSON without address end in the catch
GeoRespond(r, body) ==
    /\ r \in geoReq
    /\ geoReq' = geoReq \ {r}
    /\ IF body.kind = "address"
       THEN /\ areaNames' = [areaNames EXCEPT ![r.id] = AreaLabel(body.address)]
            /\ UNCHANGED geoErrors
       ELSE /\ geoErrors' = geoErrors \cup {r.id}
            /\ UNCHANGED areaNames
    /\ UNCHANGED <<activeTab, dateFilter, orders, loading, error,
                   fetches, timers, issued, lastOutcome, ordersFrom, now>>

\* an hour passes
Tick ==
    /\ now < HoursPerDay + MaxTicks
    /\ now' = now + 1
    /\ UNCHANGED <<activeTab, dateFilter, orders, loading, error, areaNames,
                   fetches, timers, geoReq, geoErrors, issued, lastOutcome, ordersFrom>>

\* the steps of App with the inputs of the user, the order source and the
\* geocoding source drawn from the given sets
NextWith(Windows, Tabs, Collections, Bodies) ==
    \/ \E w \in Windows : SelectWindow(w)
    \/ Retry
    \/ \E t \in Tabs : SelectBucket(t)
    \/ \E f \in fetches : \E data \in Collections : FetchSucceed(f, data)
    \/ \E f \in fetches : \E msg \in FetchErrors : FetchFail(f, msg)
    \/ \E t \in timers : TimerFire(t)
    \/ \E r \in geoReq : \E body \in Bodies : GeoRespond(r, body)

\* the load of the dashboard: every window and every tab
Next == NextWith(FilterIds, TabIds, LoadCollections,
                 {GeoBody("neterror", EmptyAddress),
                  GeoBody("address", [EmptyAddress EXCEPT !.suburb = "Clifton"])})

Spec == Init /\ [][Next]_vars

\* the enrichment: every kind of coordinates
NextEnrich == NextWith({"daily", "3day"}, {"created", "processed"},
                       EnrichCollections, SomeGeoBodies)

SpecEnrich == Init /\ [][NextEnrich]_vars

\* the geocoding answers: every kind of answer, for one order
NextGeo == NextWith({"daily", "3day"}, {"created", "processed"},
                    {<<>>, <<OrderOf(1, GoodCoords)>>}, AllGeoBodies)

SpecGeo == Init /\ [][NextGeo]_vars

\* the skipped enrichment: an order that never has coordinates
NextSkip == NextWith({"daily", "3day"}, {"created", "processed"},
                     SkipCollections, SomeGeoBodies)

SpecSkip == Init /\ [][NextSkip]_vars

\* the geocoding source always answers with an address object
AddressBodies ==
    {GeoBody("address", EmptyAddress),
     GeoBody("address", [EmptyAddress EXCEPT !.city = "Karachi"])}

NextLive == NextWith({"daily", "3day"}, {"created", "processed"},
                     LiveCollections, AddressBodies)

\* the event loop runs every timer callback that is due and every
\* continuation of a settled geocoding call
SpecLive ==
    /\ Init
    /\ [][NextLive]_vars
    /\ WF_vars(\E t \in timers : TimerFire(t))
    /\ WF_vars(\E r \in geoReq : \E body \in AddressBodies : GeoRespond(r, body))

\* every network call of fetchOrders settles, and the event loop runs its
\* continuation
SpecLoadLive ==
    /\ Init
    /\ [][NextLive]_vars
    /\ WF_vars(\E f \in fetches :
                  \/ \E data \in LiveCollections : FetchSucceed(f, data)
                  \/ \E msg \in FetchErrors : FetchFail(f, msg))

\* the window boundary: the component mounts in the last hours of a day,
\* the clock runs past midnight, windows are selected, and the fetches stay
\* in flight
InitBoundary ==
    /\ activeTab = "created"
    /\ dateFilter = "daily"
    /\ orders = <<>>
    /\ loading = TRUE
    /\ error = "null"
    /\ areaNames = [id \in OrderIds |-> NoLabel]
    /\ now \in (HoursPerDay - MaxTicks)..(HoursPerDay - 1)
    /\ fetches = {[seq |-> 1, window |-> "daily", after |-> afterDate("daily", now),
                   at |-> now, by |-> "mount"]}
    /\ timers = {}
    /\ geoReq = {}
    /\ geoErrors = {}
    /\ issued = 1
    /\ lastOutcome = "pending"
    /\ ordersFrom = 0

NextBoundary ==
    \/ Tick
    \/ \E w \in FilterIds : SelectWindow(w)

SpecBoundary == InitBoundary /\ [][NextBoundary]_vars

\* the classifier: the first fetch has succeeded with a collection of
\* StatusCollections, whose orders carry no coordinates
InitClassify ==
    /\ activeTab = "created"
    /\ dateFilter = "daily"
    /\ orders \in StatusCollections
    /\ loading = FALSE
    /\ error = "null"
    /\ areaNames = [id \in OrderIds |-> NoLabel]
    /\ fetches = {}
    /\ timers = {}
    /\ geoReq = {}
    /\ geoErrors = {}
    /\ now = 0
    /\ issued = 1
    /\ lastOutcome = "ok"
    /\ ordersFrom = 1

NextClassify == \E t \in TabIds : SelectBucket(t)

SpecClassify == InitClassify /\ [][NextClassify]_vars

----------------------------------------------------------------------------
(* Vocabulary of the properties *)

\* the ids of the orders of a collection
IdsOf(os) == {os[i].id : i \in 1..Len(os)}

\* the statuses some tab lists
KnownStatuses ==
    {s \in {StatusKinds[k] : k \in 1..Len(StatusKinds)} :
        \E i \in 1..Len(TABS) : Includes(TABS[i].status, s)}

\* the tabs whose projection of os holds the order o
BucketsOf(os, o) ==
    {t \in TabIds : \E i \in 1..Len(filteredOrders(os, t)) : filteredOrders(os, t)[i] = o}

RECURSIVE SumCounts(_, _)
\* the counts of the tabs i..Len(TABS) added up
SumCounts(os, i) ==
    IF i > Len(TABS) THEN 0 ELSE count(os, TABS[i]) + SumCounts(os, i + 1)

\* a component of a coordinate pair: digits with an optional sign and point
Numeric(s) ==
    /\ s # Undefined
    /\ s # <<>>
    /\ \A i \in 1..Len(s) : s[i] \in {"0", "1", "2", "3", "4", "5", "6", "7", "8", "9", ".", "-"}

\* the label the preference list suburb, neighbourhood, city_district,
\* city asks for: the first non-empty field, the fallback when there is none
IsFirstPresent(a, label) ==
    LET fields == <<a.suburb, a.neighbourhood, a.city_district, a.city>>
    IN \/ \E i \in 1..4 : /\ fields[i] # ""
                          /\ \A j \in 1..(i - 1) : fields[j] = ""
                          /\ label = fields[i]
       \/ /\ \A i \in 1..4 : fields[i] = ""
          /\ label = FallbackLabel

----------------------------------------------------------------------------
(* Properties *)

\* C1: last window wins. Once no fetch is in flight and the fetch issued
\* last (the one for the window selected last) has succeeded, the stored
\* collection is the result of that fetch, whatever the order in which the
\* fetches completed.
C1_LastWindowWins ==
    (fetches = {} /\ issued >= 2 /\ lastOutcome = "ok") => ordersFrom = issued

\* C2: at most one geocoding request is in flight per order id.
C2_OneInFlightPerOrder ==
    \A r1 \in geoReq : \A r2 \in geoReq : r1.id = r2.id => r1 = r2

\* C3: once areaNames holds a label for an order id, no step changes it.
C3_FirstResolutionFinal ==
    [][\A id \in OrderIds : areaNames[id] # NoLabel => areaNames'[id] = areaNames[id]]_vars

\* C4: no geocoding request is made for coordinates that do not split into
\* two numeric components.
C4_NoCallForMalformed ==
    \A r \in geoReq : Numeric(r.lat) /\ Numeric(r.lon)

\* C5 as claimed: once a fetch result has replaced the collection,
\* areaNames has no label for an id absent from the current collection.
C5_CacheFollowsCollection ==
    ordersFrom # 0 => \A id \in OrderIds : areaNames[id] # NoLabel => id \in IdsOf(orders)

\* C5 as amended: no step removes a label from areaNames, and the step that
\* replaces the collection by a fetch result leaves areaNames as it is.
C5_CacheKeptAcrossFetch ==
    [][/\ \A id \in OrderIds : areaNames[id] # NoLabel => areaNames'[id] # NoLabel
       /\ ordersFrom' # ordersFrom => areaNames' = areaNames]_vars

\* C5 witness: the collection has been replaced at least once and areaNames
\* holds a label for an id that is not in the current collection.
C5_Witness ==
    /\ ordersFrom >= 2
    /\ \E id \in OrderIds : areaNames[id] # NoLabel /\ id \notin IdsOf(orders)

\* C6: a failed fetch leaves Failed with the message and the previous
\* collection, and the success of a fetch that Retry issued leaves Loaded
\* with no error.
C6_FailThenRetry ==
    [][/\ \A f \in fetches :
             (f \notin fetches' /\ ordersFrom' = ordersFrom /\ lastOutcome' # "pending")
                => (~loading' /\ error' # "null" /\ orders' = orders)
       /\ \A f \in fetches :
             (f.by = "retry" /\ f \notin fetches' /\ ordersFrom' = f.seq)
                => (~loading' /\ error' = "null")]_vars

\* C7: every order of the collection is in the projection of at most one
\* tab, and an order of unknown status is in none.
C7_AtMostOneBucket ==
    \A i \in 1..Len(orders) :
        /\ Cardinality(BucketsOf(orders, orders[i])) <= 1
        /\ orders[i].status \notin KnownStatuses => BucketsOf(orders, orders[i]) = {}

\* C7 witness: a loaded collection with an order of unknown status and an
\* order that the active tab shows.
C7_Witness ==
    /\ \E i \in 1..Len(orders) : orders[i].status = "refunded"
    /\ \E i \in 1..Len(orders) : BucketsOf(orders, orders[i]) = {activeTab}
    /\ activeTab # "created"

\* C8: the counts of the tabs add up to the number of orders of known
\* status, and the count of a tab is the size of its projection.
C8_CountsAddUp ==
    /\ SumCounts(orders, 1) =
          Cardinality({i \in 1..Len(orders) : orders[i].status \in KnownStatuses})
    /\ \A i \in 1..Len(TABS) :
          count(orders, TABS[i]) = Len(filteredOrders(orders, TABS[i].id))

\* C8 witness: a collection with orders of unknown status, where the counts
\* add up to less than its size, and two orders under one tab.
C8_Witness ==
    /\ SumCounts(orders, 1) < Len(orders)
    /\ \E i \in 1..Len(TABS) : count(orders, TABS[i]) = 2

\* C9: a geocoding response with an address object stores the first
\* non-empty of suburb, neighbourhood, city_district, city, and the
\* fallback label when all four are missing.
C9_FirstPresentField ==
    [][\A r \in geoReq : \A a \in Addresses :
          GeoRespond(r, GeoBody("address", a))
             => (IsFirstPresent(a, areaNames'[r.id]) /\ areaNames'[r.id] # NoLabel)]_vars

\* C9 witness: an order has the fallback label, and a timer set earlier
\* saw it with the neighbourhood as its label.
C9_Witness ==
    \E t \in timers : t.seen = "Saddar" /\ areaNames[t.id] = FallbackLabel

\* C10: a step that changes the active tab issues no fetch and changes
\* nothing else.
C10_BucketChangeIsReadOnly ==
    [][activeTab' # activeTab =>
          UNCHANGED <<dateFilter, orders, loading, error, areaNames, fetches,
                      timers, geoReq, geoErrors, now, issued, lastOutcome,
                      ordersFrom>>]_vars

\* C10 witness: another tab is active while a fetch is in flight, a
\* collection is loaded and a label is cached.
C10_Witness ==
    /\ activeTab # "created"
    /\ fetches # {}
    /\ orders # <<>>
    /\ \E id \in OrderIds : areaNames[id] # NoLabel


\* C11: a step of the enrichment (a timer firing, a geocoding call
\* answering or failing) leaves the load state, the error and the order
\* collection as they are; the step that applies a collection ends loading
\* whatever the enrichment is doing; and an error message appears only in
\* a step in which a fetch of orders fails.
C11_EnrichmentIsolated ==
    [][ /\ ( /\ fetches' = fetches
             /\ \/ timers' # timers
                \/ geoReq' # geoReq
                \/ areaNames' # areaNames
                \/ geoErrors' # geoErrors )
           => UNCHANGED <<loading, error, orders>>
        /\ (ordersFrom' # ordersFrom) => ~loading'
        /\ (error' # error /\ error' # "null")
           => /\ \E f \in fetches : fetches' = fetches \ {f}
              /\ ordersFrom' = ordersFrom
              /\ orders' = orders ]_vars

\* the collection is loaded without error while a geocoding call has
\* failed and another enrichment is still under way
C11_Witness ==
    /\ ~loading
    /\ error = "null"
    /\ orders # <<>>
    /\ geoErrors # {}
    /\ timers \cup geoReq # {}

\* C12: the first state has exactly the fetch of the mount; a step that
\* issues a fetch issues exactly one, for the window then selected, and it
\* is a change of the window or a retry pressed on the error display; a
\* change of the window issues one fetch and sets loading; a step in which
\* a fetch ends, failed or not, issues none.
C12_FetchTriggers ==
  /\ (issued = 1 /\ \E f \in fetches : fetches = {f} /\ f.seq = 1 /\ f.by = "mount")
  /\ [][ /\ issued' # issued
            => /\ issued' = issued + 1
               /\ \E f \in fetches' :
                     /\ f \notin fetches
                     /\ fetches' = fetches \cup {f}
                     /\ f.seq = issued'
                     /\ f.window = dateFilter'
               /\ \/ dateFilter' # dateFilter
                  \/ (~loading /\ error # "null" /\ dateFilter' = dateFilter)
         /\ dateFilter' # dateFilter => (loading' /\ issued' = issued + 1)
         /\ (\E f \in fetches : f \notin fetches') => issued' = issued ]_vars

\* a fetch issued by a retry is in flight after the window was changed
C12_Witness ==
    /\ dateFilter # "daily"
    /\ loading
    /\ \E f \in fetches : f.by = "retry" /\ f.seq = issued

\* C13: there are never more geocoding calls in flight than orders in the
\* collection on display.
C13_InFlightBounded == Cardinality(geoReq) <= Len(orders)

\* C14: a timer that fires for an order whose label is already in the cache
\* starts no geocoding call and changes no label.
C14_ResolvedTriggerNoOp ==
    [][ \A t \in timers :
          (TimerFire(t) /\ areaNames[t.id] # NoLabel)
          => (geoReq' = geoReq /\ areaNames' = areaNames) ]_vars

\* C15: once a geocoding call for an order without label has failed, the
\* order keeps having no label and no geocoding call is started for it.
C15_FailureIsFinal ==
    [][ \A id \in geoErrors :
          areaNames[id] = NoLabel
          => /\ areaNames'[id] = NoLabel
             /\ \A r \in geoReq' \ geoReq : r.id # id ]_vars

\* the orders whose coordinates are absent or 'N/A' in every response of
\* the order source
NeverLocated ==
    {id \in OrderIds :
       \A c \in SkipCollections : \A i \in 1..Len(c) :
          c[i].id = id => CoordsOf(c[i]) \in {Undefined, NA}}

\* C16: an order whose coordinates are absent or 'N/A' gets no geocoding
\* call and no label.
C16_NoCoordinatesNoEntry ==
    \A id \in NeverLocated :
       /\ areaNames[id] = NoLabel
       /\ \A r \in geoReq : r.id # id

\* the collection on display holds an order with 'N/A', its enrichment has
\* run to the end and gave the other order its label
C16_Witness ==
    /\ NeverLocated # {}
    /\ \E i \in 1..Len(orders) : orders[i].id \in NeverLocated /\ CoordsOf(orders[i]) = NA
    /\ \E i \in 1..Len(orders) : areaNames[orders[i].id] # NoLabel
    /\ timers = {}
    /\ geoReq = {}

\* the orders on display whose coordinates made the effect set a timer
Observed ==
    {orders[i].id : i \in {j \in 1..Len(orders) : Truthy(CoordsOf(orders[j]))}}

\* C17: a geocoding call starts only in the step in which a timer of its
\* order fires, and no timer is set for an order that was on display with
\* coordinates before the step.
C17_OneDelayPerOrder ==
    [][ /\ \A r \in geoReq' \ geoReq : \E t \in timers \ timers' : t.id = r.id
        /\ \A t \in timers' \ timers : t.id \notin Observed ]_vars

\* C18: an order observed with coordinates that are a pair, whose timer
\* fires and whose geocoding call is answered with an address, gets a
\* label.
C18_WellFormedGetsLabel ==
    \A id \in UNION {IdsOf(c) : c \in LiveCollections} :
       (\E t \in timers : t.id = id /\ Len(Split(t.coords)) >= 2 /\ t.coords # NA)
       ~> (areaNames[id] # NoLabel)

\* an address without any of the four fields gave the fallback label
C18_Witness ==
    \E id \in OrderIds :
       /\ areaNames[id] = FallbackLabel
       /\ \E i \in 1..Len(orders) : orders[i].id = id

\* C19: the boundary sent with a fetch is midnight of the day that lies
\* the lookback of its window before the instant the fetch was issued;
\* fetches of one window issued at one instant carry one boundary; and at
\* any instant a longer lookback gives no later boundary.
C19_BoundaryIsStartOfDay ==
    /\ \A f \in fetches :
          /\ f.after.hour = 0
          /\ f.after.date * HoursPerDay <= f.at - FindFilter(f.window).days * HoursPerDay
          /\ f.at - FindFilter(f.window).days * HoursPerDay < (f.after.date + 1) * HoursPerDay
    /\ \A f, g \in fetches :
          (f.window = g.window /\ f.at = g.at) => f.after = g.after
    /\ \A v, w \in FilterIds :
          FindFilter(v).days <= FindFilter(w).days
          => afterDate(w, now).date <= afterDate(v, now).date

\* fetches of the same window issued on the two sides of a midnight are in
\* flight, with boundaries one day apart
C19_Witness ==
    \E f, g \in fetches :
       /\ f.window = g.window
       /\ f.at < HoursPerDay
       /\ g.at >= HoursPerDay
       /\ g.after.date = f.after.date + 1

\* C20: while the fetch of the window now selected is in flight, the
\* display is loading.
C20_LoadingWhileInFlight == (\E f \in fetches : f.seq = issued) => loading


\* C21: when no fetch is in flight and the fetch issued last has
\* succeeded, the display is not loading and shows no error message.
C21_LatestSuccessIsLoaded ==
    (fetches = {} /\ lastOutcome = "ok") => (~loading /\ error = "null")

\* C22: with no fetch in flight the display is not loading, and when the
\* network calls of the fetches settle, loading always ends.
C22_LoadingEnds ==
    /\ [](fetches = {} => ~loading)
    /\ (loading ~> ~loading)

\* every fetch has settled, the last one by a failure, and the display
\* shows the error state
C22_Witness ==
    /\ fetches = {}
    /\ issued > 1
    /\ lastOutcome = "failed"
    /\ ~loading
    /\ error \in FetchErrors

\* C23: the step in which a fetch is issued and the step in which a fetch
\* fails leave the stored collection and the area cache as they are; the
\* step of the failure also leaves the timers, the geocoding calls, the tab
\* and the window as they are.
C23_FailureKeepsCollection ==
    [][ /\ issued' # issued => UNCHANGED <<orders, areaNames>>
        /\ ( /\ \E f \in fetches : fetches' = fetches \ {f}
             /\ ordersFrom' = ordersFrom )
           => /\ UNCHANGED <<orders, areaNames, timers, geoReq, activeTab, dateFilter>>
              /\ ~loading'
              /\ error' \in FetchErrors ]_vars

\* the fetch issued last has failed while a collection is stored and the
\* cache holds a label for one of its orders
C23_Witness ==
    /\ lastOutcome = "failed"
    /\ error \in FetchErrors
    /\ orders # <<>>
    /\ \E i \in 1..Len(orders) : areaNames[orders[i].id] # NoLabel

====
